---------------------------- MODULE Spec2Model ----------------------------
(***************************************************************************)
(* Model of src-tauri/src/main.rs of AgentCompany Desktop: the supervisor  *)
(* of the single Manager Web worker process (start_manager_web,            *)
(* stop_manager_web, manager_web_status over Mutex<Option<ManagedProcess>>)*)
(* and the one-shot CLI invocations (bootstrap_workspace, onboard_agent).  *)
(*                                                                         *)
(* Conventions.  A Rust String is a sequence of one-character strings; a   *)
(* path is the sequence obtained from such a string.  Option<T> is a       *)
(* sequence of length at most one: <<>> is None, <<x>> is Some(x).         *)
(* Result<T, String> is a record [ok, val, err, detail].                   *)
(***************************************************************************)
EXTENDS Integers, Sequences, FiniteSets, TLC

(***************************************************************************)
(* Bounds of the model.                                                    *)
(***************************************************************************)
NumThreads == 2     \* concurrent callers of the tauri commands
MaxPid == 3         \* worker processes that can be spawned in one run

Threads == 1..NumThreads

(***************************************************************************)
(* Strings.                                                                *)
(***************************************************************************)
\* char::is_whitespace, on the characters the model uses
IsSpace(c) == c \in {" ", "\n", "\t"}

RECURSIVE TrimStart(_)
TrimStart(s) ==
  IF s # <<>> /\ IsSpace(Head(s)) THEN TrimStart(Tail(s)) ELSE s

RECURSIVE TrimEnd(_)
TrimEnd(s) ==
  IF s # <<>> /\ IsSpace(s[Len(s)]) THEN TrimEnd(SubSeq(s, 1, Len(s) - 1)) ELSE s

\* str::trim
Trim(s) == TrimEnd(TrimStart(s))

LowerChar(c) ==
  CASE c = "C" -> "c" [] c = "E" -> "e" [] c = "O" -> "o" [] c = "W" -> "w"
    [] c = "R" -> "r" [] c = "K" -> "k" [] c = "M" -> "m" [] c = "A" -> "a"
    [] c = "N" -> "n" [] c = "G" -> "g" [] c = "H" -> "h" [] c = "U" -> "u"
    [] c = "D" -> "d" [] c = "I" -> "i" [] c = "T" -> "t"
    [] OTHER -> c

\* str::to_lowercase
ToLowercase(s) == [i \in DOMAIN s |-> LowerChar(s[i])]

Digit(d) ==
  CASE d = 0 -> "0" [] d = 1 -> "1" [] d = 2 -> "2" [] d = 3 -> "3" [] d = 4 -> "4"
    [] d = 5 -> "5" [] d = 6 -> "6" [] d = 7 -> "7" [] d = 8 -> "8" [] d = 9 -> "9"

\* u16::to_string
RECURSIVE U16ToString(_)
U16ToString(n) ==
  IF n < 10 THEN <<Digit(n)>> ELSE U16ToString(n \div 10) \o <<Digit(n % 10)>>

S_human == <<"h", "u", "m", "a", "n">>
S_ceo == <<"c", "e", "o">>
S_director == <<"d", "i", "r", "e", "c", "t", "o", "r">>
S_manager == <<"m", "a", "n", "a", "g", "e", "r">>
S_worker == <<"w", "o", "r", "k", "e", "r">>
S_admin == <<"a", "d", "m", "i", "n">>

\* unwrap_or_else on an Option
UnwrapOr(opt, dflt) == IF opt = <<>> THEN dflt ELSE opt[1]

(***************************************************************************)
(* Results and statuses.                                                   *)
(***************************************************************************)
\* err is the fixed part of the message, detail the text formatted into it
Ok(v) == [ok |-> TRUE, val |-> <<v>>, err |-> "", detail |-> <<>>]
ErrWith(m, d) == [ok |-> FALSE, val |-> <<>>, err |-> m, detail |-> d]
Err(m) == ErrWith(m, <<>>)

\* ManagerWebStatus::idle
IdleStatus ==
  [running |-> FALSE, url |-> <<>>, pid |-> <<>>, workspace_dir |-> <<>>, project_id |-> <<>>]

\* p is a ManagedProcess: [child, url, workspace_dir, project_id], child a pid
status_from_managed(p) ==
  [running |-> TRUE, url |-> <<p.url>>, pid |-> <<p.child>>,
   workspace_dir |-> <<p.workspace_dir>>, project_id |-> <<p.project_id>>]

valid_actor_role(role) == role \in {S_human, S_ceo, S_director, S_manager, S_worker}

valid_agent_role(role) == role \in {S_ceo, S_director, S_manager, S_worker}

(***************************************************************************)
(* Executable resolver.  The environment of one call is a record           *)
(* [cli_env, files, cwd, exe_dir]: the value of AGENTCOMPANY_CLI_PATH (an  *)
(* Option), the set of paths that are files, the current directory and the *)
(* directory of the host executable (paths as sequences of components).    *)
(***************************************************************************)
AncestorLevels == 8

\* Path::ancestors().take(8): the path itself, then each parent up to the root
Ancestors(base) ==
  [i \in 1..(IF Len(base) + 1 < AncestorLevels THEN Len(base) + 1 ELSE AncestorLevels)
     |-> SubSeq(base, 1, Len(base) + 1 - i)]

RECURSIVE PushFrom(_, _, _)
PushFrom(anc, i, out) ==
  IF i > Len(anc) THEN out
  ELSE LET candidate == anc[i] \o <<"dist", "cli.js">>
       IN  PushFrom(anc, i + 1,
                    IF \E j \in DOMAIN out : out[j] = candidate THEN out
                    ELSE Append(out, candidate))

push_candidates(base, out) == PushFrom(Ancestors(base), 1, out)

discover_cli_candidates(env) ==
  push_candidates(env.exe_dir, push_candidates(env.cwd, <<>>))

is_file(env, p) == p \in env.files

RECURSIVE FirstFile(_, _, _)
FirstFile(env, cands, i) ==
  IF i > Len(cands)
  THEN Err("Unable to find dist/cli.js")
  ELSE IF is_file(env, cands[i]) THEN Ok(cands[i]) ELSE FirstFile(env, cands, i + 1)

resolve_cli_path(explicit, env) ==
  IF explicit # <<>>
  THEN LET p == Trim(explicit[1])
       IN  IF is_file(env, p) THEN Ok(p) ELSE ErrWith("CLI path does not exist", p)
  ELSE IF env.cli_env # <<>>
       THEN LET p == Trim(env.cli_env[1])
            IN  IF is_file(env, p) THEN Ok(p)
                ELSE ErrWith("AGENTCOMPANY_CLI_PATH is set but does not exist", p)
       ELSE FirstFile(env, discover_cli_candidates(env), 1)

(***************************************************************************)
(* One-shot invocations.  The output of a child is a record                *)
(* [spawned, success, stdout, stderr]; a captured stream is a sequence of  *)
(* characters in which "xFF" stands for a byte that is not valid UTF-8.    *)
(***************************************************************************)
\* String::from_utf8 succeeds
IsUtf8(bytes) == \A i \in DOMAIN bytes : bytes[i] # "xFF"

\* String::from_utf8_lossy
Utf8Lossy(bytes) == [i \in DOMAIN bytes |-> IF bytes[i] = "xFF" THEN "uFFFD" ELSE bytes[i]]

\* the documents serde_json parses, among the outputs the model uses
IsJson(s) == s \in {<<"{", "}">>}

parse_cli_json_output(stdout) ==
  IF ~IsUtf8(stdout) THEN Err("CLI stdout is not valid UTF-8")
  ELSE IF IsJson(Trim(stdout)) THEN Ok(Trim(stdout))
  ELSE ErrWith("CLI returned non-JSON output", Trim(stdout))

parse_cli_text_output(stdout) ==
  IF ~IsUtf8(stdout) THEN Err("CLI stdout is not valid UTF-8")
  ELSE IF Trim(stdout) = <<>> THEN Err("CLI returned empty output")
  ELSE Ok(Trim(stdout))

\* a variant that looks at standard output first
FailureDetailStdoutFirst(msg, out) ==
  LET stderr == Trim(Utf8Lossy(out.stderr))
      stdout == Trim(Utf8Lossy(out.stdout))
  IN  ErrWith(msg, IF stdout # <<>> THEN stdout ELSE stderr)

\* the error of a child that exited nonzero (lines 447-452, 500-505, 533-538)
FailureDetail(msg, out) ==
  LET stderr == Trim(Utf8Lossy(out.stderr))
      stdout == Trim(Utf8Lossy(out.stdout))
  IN  ErrWith(msg, IF stderr # <<>> THEN stderr ELSE stdout)

(***************************************************************************)
(* Requests and environments the callers can present.                      *)
(***************************************************************************)
BuiltCli == <<"app", "dist", "cli.js">>
CustomCli == <<"opt", "cli.js">>
MissingCli == <<"nowhere", "cli.js">>

Envs ==
  { [cli_env |-> <<>>, files |-> {BuiltCli}, cwd |-> <<"app">>, exe_dir |-> <<"app", "bin">>],
    [cli_env |-> <<>>, files |-> {}, cwd |-> <<"app">>, exe_dir |-> <<"app", "bin">>],
    [cli_env |-> <<CustomCli>>, files |-> {CustomCli}, cwd |-> <<"app">>, exe_dir |-> <<"app", "bin">>],
    [cli_env |-> <<MissingCli>>, files |-> {BuiltCli}, cwd |-> <<"app">>, exe_dir |-> <<"app", "bin">>] }

DefaultHost == <<"1", "2", "7", ".", "0", ".", "0", ".", "1">>
DefaultPort == 8787

\* StartManagerWebArgs; the fields that only reach the argument vector
\* (limits, index flags, actor_team_id, node_bin) are left out
BaseStart ==
  [workspace_dir |-> <<"a">>, project_id |-> <<"p">>, actor_id |-> <<>>,
   actor_role |-> <<>>, host |-> <<>>, port |-> <<>>, cli_path |-> <<>>]

StartInputs ==
  { BaseStart,
    [BaseStart EXCEPT !.workspace_dir = <<" ", "a", " ">>, !.port = <<9000>>],
    [BaseStart EXCEPT !.workspace_dir = <<"b">>, !.actor_role = <<S_ceo>>],
    [BaseStart EXCEPT !.project_id = <<"q", " ">>, !.actor_role = <<<<" ">> \o S_human>>],
    [BaseStart EXCEPT !.cli_path = <<<<" ">> \o CustomCli>>],
    [BaseStart EXCEPT !.workspace_dir = <<" ">>],
    [BaseStart EXCEPT !.project_id = <<>>],
    [BaseStart EXCEPT !.actor_id = <<<<" ">>>>],
    [BaseStart EXCEPT !.actor_role = <<S_admin>>],
    [BaseStart EXCEPT !.actor_role = <<<<"M">> \o Tail(S_manager)>>],
    [BaseStart EXCEPT !.host = <<<<" ">>>>],
    [BaseStart EXCEPT !.port = <<0>>],
    [BaseStart EXCEPT !.cli_path = <<MissingCli>>],
    [BaseStart EXCEPT !.cli_path = <<<<" ">>>>] }

\* start_manager_web up to the lock: validation, defaults and resolution
ValidateStart(args, env) ==
  LET workspace_dir == Trim(args.workspace_dir)
      project_id == Trim(args.project_id)
      actor_id == Trim(UnwrapOr(args.actor_id, S_human))
      actor_role == Trim(UnwrapOr(args.actor_role, S_manager))
      host == Trim(UnwrapOr(args.host, DefaultHost))
      port == UnwrapOr(args.port, DefaultPort)
      cli_path == resolve_cli_path(args.cli_path, env)
  IN  IF workspace_dir = <<>> THEN Err("workspace_dir is required")
      ELSE IF project_id = <<>> THEN Err("project_id is required")
      ELSE IF actor_id = <<>> THEN Err("actor_id cannot be empty")
      ELSE IF ~valid_actor_role(actor_role) THEN Err("actor_role must be one of")
      ELSE IF host = <<>> THEN Err("host cannot be empty")
      ELSE IF port = 0 THEN Err("port must be between 1 and 65535")
      ELSE IF ~cli_path.ok THEN cli_path
      ELSE Ok([workspace_dir |-> workspace_dir, project_id |-> project_id,
               host |-> host, port |-> port])

\* what validation and resolution make of the requests the callers present
StartOutcomes == {ValidateStart(args, env) : args \in StartInputs, env \in Envs}

\* format!("http://{}:{}", host, port)
FormatUrl(host, port) ==
  <<"h", "t", "t", "p", ":", "/", "/">> \o host \o <<":">> \o U16ToString(port)

\* BootstrapWorkspaceArgs; the fields that only reach the argument vector
\* (names, departments, flags, node_bin) are left out
BootstrapInputs ==
  { [workspace_dir |-> <<"a">>, cli_path |-> <<>>],
    [workspace_dir |-> <<>>, cli_path |-> <<>>],
    [workspace_dir |-> <<" ">>, cli_path |-> <<>>],
    [workspace_dir |-> <<"a">>, cli_path |-> <<MissingCli>>] }

\* bootstrap_workspace up to the child, lines 396-402
ValidateBootstrap(args, env) ==
  LET workspace_dir == Trim(args.workspace_dir)
      cli_path == resolve_cli_path(args.cli_path, env)
  IN  IF workspace_dir = <<>> THEN Err("workspace_dir is required")
      ELSE IF ~cli_path.ok THEN cli_path
      ELSE Ok([workspace_dir |-> workspace_dir])

BootstrapOutcomes == {ValidateBootstrap(args, env) : args \in BootstrapInputs, env \in Envs}

S_Eng == <<"E", "n", "g">>

BaseOnboard ==
  [workspace_dir |-> <<"a">>, name |-> <<"n">>, role |-> S_worker, provider |-> <<"x">>,
   team_id |-> <<>>, team_name |-> <<>>, cli_path |-> <<>>]

OnboardInputs ==
  { BaseOnboard,
    [BaseOnboard EXCEPT !.team_name = <<S_Eng>>],
    [BaseOnboard EXCEPT !.team_id = <<<<" ">>>>, !.team_name = <<<<" ">> \o S_Eng>>],
    [BaseOnboard EXCEPT !.team_id = <<<<" ", "t", "9">>>>, !.team_name = <<S_Eng>>],
    [BaseOnboard EXCEPT !.team_name = <<<<" ">>>>],
    [BaseOnboard EXCEPT !.role = <<" ", "C", "E", "O">>, !.team_name = <<S_Eng>>],
    [BaseOnboard EXCEPT !.workspace_dir = <<>>],
    [BaseOnboard EXCEPT !.name = <<" ">>],
    [BaseOnboard EXCEPT !.role = S_human],
    [BaseOnboard EXCEPT !.provider = <<>>],
    [BaseOnboard EXCEPT !.cli_path = <<MissingCli>>] }

\* Option<String>::map(trim).filter(non-empty)
TrimmedNonEmpty(opt) ==
  IF opt # <<>> /\ Trim(opt[1]) # <<>> THEN <<Trim(opt[1])>> ELSE <<>>

\* onboard_agent up to the first child, lines 459-483: the locals it goes on
\* with (team_name is kept as it is used at lines 486-488: trimmed, and absent
\* when that leaves nothing; given_team_id keeps what the request gave)
ValidateOnboard(args, env) ==
  LET workspace_dir == Trim(args.workspace_dir)
      name == Trim(args.name)
      role == ToLowercase(Trim(args.role))
      provider == Trim(args.provider)
      cli_path == resolve_cli_path(args.cli_path, env)
      team_id == TrimmedNonEmpty(args.team_id)
  IN  IF workspace_dir = <<>> THEN Err("workspace_dir is required")
      ELSE IF name = <<>> THEN Err("name is required")
      ELSE IF ~valid_agent_role(role) THEN Err("role must be one of")
      ELSE IF provider = <<>> THEN Err("provider is required")
      ELSE IF ~cli_path.ok THEN cli_path
      ELSE Ok([role |-> role, given_team_id |-> team_id,
               team_name |-> TrimmedNonEmpty(args.team_name),
               team_id |-> team_id, created_team |-> FALSE])

OnboardOutcomes == {ValidateOnboard(args, env) : args \in OnboardInputs, env \in Envs}

\* a variant with the test on the team id the wrong way round
NeedsTeamInverted(req) ==
  /\ req.role # S_ceo
  /\ req.team_id # <<>>
  /\ req.team_name # <<>>

\* lines 485-488: a team is to be created first
NeedsTeam(req) ==
  /\ req.role # S_ceo
  /\ req.team_id = <<>>
  /\ req.team_name # <<>>

\* what Command::output() can give for a one-shot child
ChildOutputs ==
  { [spawned |-> FALSE, success |-> FALSE, stdout |-> <<>>, stderr |-> <<>>],
    [spawned |-> TRUE, success |-> TRUE, stdout |-> <<"{", "}", "\n">>, stderr |-> <<"w">>],
    [spawned |-> TRUE, success |-> TRUE, stdout |-> <<" ", "\n">>, stderr |-> <<>>],
    [spawned |-> TRUE, success |-> TRUE, stdout |-> <<"xFF">>, stderr |-> <<>>],
    [spawned |-> TRUE, success |-> FALSE, stdout |-> <<"o">>, stderr |-> <<"e", "\n">>],
    [spawned |-> TRUE, success |-> FALSE, stdout |-> <<"{", "}">>, stderr |-> <<" ">>] }

(***************************************************************************)
(* State.                                                                  *)
(*   slot     UiProcessState.process: Option<ManagedProcess>               *)
(*   lock     the thread holding the Mutex, 0 when it is free              *)
(*   worker   the process behind the one Child handle there is (held by    *)
(*            the slot, or by stop_manager_web once it took it): "none"    *)
(*            without a handle, else "alive", "killed" (the kill signal is *)
(*            delivered, the process has not yet gone) or "exited"         *)
(*   orphans  the workers that have not exited and whose handle was        *)
(*            dropped: dropping a Child neither kills nor reaps it         *)
(*   nextPid  the identifier the next spawned worker gets                  *)
(*   th       each caller: the command it runs, where it is, its locals    *)
(*   ev       what the last step did (a history variable)                  *)
(***************************************************************************)
VARIABLES slot, lock, worker, orphans, nextPid, th, ev

vars == <<slot, lock, worker, orphans, nextPid, th, ev>>

\* child is the pid of the worker the command took to terminate, 0 if none
IdleThread == [pc |-> "idle", op |-> "", req |-> <<>>, child |-> 0]

\* a step that the history does not record
Quiet ==
  [op |-> "", act |-> "", before |-> <<>>, child |-> 0, poll |-> "", sys |-> "",
   ret |-> <<>>, req |-> <<>>, cmd |-> <<>>]

\* a step of command op: the slot it found (before), the worker it took to
\* terminate (child, 0 if none), what try_wait (poll) or kill, wait and spawn
\* (sys) answered in it, what it returned (ret), the request it serves (req)
\* and the one-shot child it ran (cmd)
Event(op, act, child, poll, sys, ret, req, cmd) ==
  [op |-> op, act |-> act, before |-> slot, child |-> child, poll |-> poll,
   sys |-> sys, ret |-> ret, req |-> req, cmd |-> cmd]

Init ==
  /\ slot = <<>>
  /\ lock = 0
  /\ worker = "none"
  /\ orphans = 0
  /\ nextPid = 1
  /\ th = [t \in Threads |-> IdleThread]
  /\ ev = Quiet

(***************************************************************************)
(* The operating system.                                                   *)
(***************************************************************************)
\* Child::try_wait: Ok(Some(_)) once the process has exited, Ok(None) while
\* it has not, or an error
TryWaitOutcomes ==
  (IF worker = "exited" THEN {"exited"} ELSE {"running"}) \cup {"error"}

\* Child::kill: the signal is sent, or the platform reports that the process
\* is already gone (ErrorKind::InvalidInput), or another error
KillOutcomes ==
  {"ok", "error"} \cup (IF worker = "exited" THEN {"invalid_input"} ELSE {})

\* Child::wait blocks until the process has exited, or fails
WaitOutcomes ==
  (IF worker \in {"killed", "exited"} THEN {"ok"} ELSE {}) \cup {"error"}

\* the worker behind the handle exits on its own, or goes after a kill
WorkerExit ==
  /\ worker \in {"alive", "killed"}
  /\ worker' = "exited"
  /\ ev' = Quiet
  /\ UNCHANGED <<slot, lock, orphans, nextPid, th>>

\* a worker without a handle exits
OrphanExit ==
  /\ orphans > 0
  /\ orphans' = orphans - 1
  /\ ev' = Quiet
  /\ UNCHANGED <<slot, lock, worker, nextPid, th>>

\* the Child handle is dropped with its process in state w
DropHandle(w) ==
  /\ worker' = "none"
  /\ orphans' = IF w \in {"alive", "killed"} THEN orphans + 1 ELSE orphans

(***************************************************************************)
(* Steps shared by the commands.                                           *)
(***************************************************************************)
\* the host still serves commands: the managed state has not been dropped
Serving == \A u \in Threads : th[u].op # "drop"

\* drop of UiProcessState is over (lines 79-85): it returns nothing, the
\* outcome of terminate_child is discarded (let _ =, line 82)
DropDone(t, child, poll, sys) ==
  /\ th' = [th EXCEPT ![t] = [pc |-> "down", op |-> "drop", req |-> <<>>, child |-> 0]]
  /\ lock' = 0
  /\ ev' = Event("drop", "done", child, poll, sys, <<>>, <<>>, <<>>)

\* a variant that returns with the guard leaked (mem::forget)
ReturnLeaksGuard(t, res, poll, sys) ==
  /\ th' = [th EXCEPT ![t] = IdleThread]
  /\ lock' = t
  /\ ev' = Event(th[t].op, "return", th[t].child, poll, sys, <<res>>, th[t].req, <<>>)

\* the command returns res to its caller: the guard, if held, is dropped
Return(t, res, poll, sys) ==
  /\ th' = [th EXCEPT ![t] = IdleThread]
  /\ lock' = 0
  /\ ev' = Event(th[t].op, "return", th[t].child, poll, sys, <<res>>, th[t].req, <<>>)

\* a variant that drops the guard between two steps of a command
GotoReleasing(t, pc, child, poll, sys) ==
  /\ th' = [th EXCEPT ![t].pc = pc, ![t].child = child]
  /\ lock' = 0
  /\ ev' = Event(th[t].op, "step", child, poll, sys, <<>>, th[t].req, <<>>)

\* the command goes on to pc, holding the guard
Goto(t, pc, child, poll, sys) ==
  /\ th' = [th EXCEPT ![t].pc = pc, ![t].child = child]
  /\ lock' = t
  /\ ev' = Event(th[t].op, "step", child, poll, sys, <<>>, th[t].req, <<>>)

\* a variant in which Start has taken the record out of the slot before it
\* terminates the worker, as Stop does
TermReturnStartTakes(t, res, w, poll, sys) ==
  IF th[t].op = "drop"
  THEN /\ DropDone(t, th[t].child, poll, sys)
       /\ DropHandle(w)
       /\ UNCHANGED slot
  ELSE
  IF th[t].op = "start"
  THEN IF res.ok
       THEN /\ slot' = <<>>
            /\ DropHandle(w)
            /\ Goto(t, "start_spawn", th[t].child, poll, sys)
       ELSE /\ Return(t, res, poll, sys)
            /\ slot' = <<>>
            /\ DropHandle(w)
  ELSE /\ Return(t, IF res.ok THEN Ok(IdleStatus) ELSE res, poll, sys)
       /\ DropHandle(w)
       /\ UNCHANGED slot

\* terminate_child returned res, leaving the process in state w, to
\* start_manager_web (lines 326-327), to stop_manager_web (lines 258-261,
\* where the ManagedProcess taken from the slot goes out of scope) or to drop
\* (lines 82-83, the same)
TermReturn(t, res, w, poll, sys) ==
  IF th[t].op = "drop"
  THEN /\ DropDone(t, th[t].child, poll, sys)
       /\ DropHandle(w)
       /\ UNCHANGED slot
  ELSE
  IF th[t].op = "start"
  THEN IF res.ok
       THEN /\ slot' = <<>>
            /\ DropHandle(w)
            /\ Goto(t, "start_spawn", th[t].child, poll, sys)
       ELSE /\ Return(t, res, poll, sys)
            /\ worker' = w
            /\ UNCHANGED <<slot, orphans>>
  ELSE /\ Return(t, IF res.ok THEN Ok(IdleStatus) ELSE res, poll, sys)
       /\ DropHandle(w)
       /\ UNCHANGED slot

\* terminate_child, lines 210-212: the child has exited already, or go on to kill
TermTryWait(t) ==
  /\ th[t].pc = "term_try"
  /\ \E o \in TryWaitOutcomes :
       \/ /\ o = "exited"
          /\ TermReturn(t, Ok("unit"), worker, o, "")
       \/ /\ o # "exited"
          /\ Goto(t, "term_kill", th[t].child, o, "")
          /\ UNCHANGED <<slot, worker, orphans>>
  /\ UNCHANGED nextPid

\* a variant that takes every failure of kill for a failure to stop
TermKillStrict(t) ==
  /\ th[t].pc = "term_kill"
  /\ \E k \in KillOutcomes :
       \/ /\ k = "ok"
          /\ worker' = IF worker = "alive" THEN "killed" ELSE worker
          /\ Goto(t, "term_wait", th[t].child, "", "kill_ok")
          /\ UNCHANGED <<slot, orphans>>
       \/ /\ k = "invalid_input"
          /\ TermReturn(t, Err("Failed to stop Manager Web process"), worker, "",
                        "kill_invalid_input")
       \/ /\ k = "error"
          /\ TermReturn(t, Err("Failed to stop Manager Web process"), worker, "", "kill_error")
  /\ UNCHANGED nextPid

\* terminate_child, lines 214-221
TermKill(t) ==
  /\ th[t].pc = "term_kill"
  /\ \E k \in KillOutcomes :
       \/ /\ k = "ok"
          /\ worker' = IF worker = "alive" THEN "killed" ELSE worker
          /\ Goto(t, "term_wait", th[t].child, "", "kill_ok")
          /\ UNCHANGED <<slot, orphans>>
       \/ /\ k = "invalid_input"
          /\ Goto(t, "term_wait", th[t].child, "", "kill_invalid_input")
          /\ UNCHANGED <<slot, worker, orphans>>
       \/ /\ k = "error"
          /\ TermReturn(t, Err("Failed to stop Manager Web process"), worker, "", "kill_error")
  /\ UNCHANGED nextPid

\* terminate_child, lines 223-226
TermWait(t) ==
  /\ th[t].pc = "term_wait"
  /\ \E w \in WaitOutcomes :
       \/ /\ w = "ok"
          /\ TermReturn(t, Ok("unit"), "exited", "", "wait_ok")
       \/ /\ w = "error"
          /\ TermReturn(t, Err("Failed waiting for Manager Web process to exit"),
                        worker, "", "wait_error")
  /\ UNCHANGED nextPid

(***************************************************************************)
(* manager_web_status                                                      *)
(***************************************************************************)
StatusBegin(t) ==
  /\ th[t].pc = "idle"
  /\ Serving
  /\ th' = [th EXCEPT ![t] = [IdleThread EXCEPT !.pc = "status_lock", !.op = "status"]]
  /\ ev' = Quiet
  /\ UNCHANGED <<slot, lock, worker, orphans, nextPid>>

\* a variant that takes a worker that has not exited for one that has
StatusPollDropsLive(t) ==
  /\ th[t].pc = "status_lock"
  /\ lock = 0
  /\ \/ /\ slot = <<>>
        /\ Return(t, Ok(IdleStatus), "", "")
        /\ UNCHANGED <<slot, worker, orphans>>
     \/ /\ slot # <<>>
        /\ \E o \in TryWaitOutcomes :
             \/ /\ o \in {"exited", "running"}
                /\ slot' = <<>>
                /\ DropHandle(worker)
                /\ Return(t, Ok(IdleStatus), o, "")
             \/ /\ o = "error"
                /\ Return(t, Err("Failed to check Manager Web process status"), o, "")
                /\ UNCHANGED <<slot, worker, orphans>>
  /\ UNCHANGED nextPid

\* a variant that reports idle for an exited worker and keeps its record
StatusPollKeepsRecord(t) ==
  /\ th[t].pc = "status_lock"
  /\ lock = 0
  /\ \/ /\ slot = <<>>
        /\ Return(t, Ok(IdleStatus), "", "")
     \/ /\ slot # <<>>
        /\ \E o \in TryWaitOutcomes :
             \/ /\ o = "exited"
                /\ Return(t, Ok(IdleStatus), o, "")
             \/ /\ o = "running"
                /\ Return(t, Ok(status_from_managed(slot[1])), o, "")
             \/ /\ o = "error"
                /\ Return(t, Err("Failed to check Manager Web process status"), o, "")
  /\ UNCHANGED <<slot, worker, orphans, nextPid>>

\* lines 231-247, under the guard
StatusPoll(t) ==
  /\ th[t].pc = "status_lock"
  /\ lock = 0
  /\ \/ /\ slot = <<>>
        /\ Return(t, Ok(IdleStatus), "", "")
        /\ UNCHANGED <<slot, worker, orphans>>
     \/ /\ slot # <<>>
        /\ \E o \in TryWaitOutcomes :
             \/ /\ o = "exited"
                /\ slot' = <<>>
                /\ DropHandle(worker)
                /\ Return(t, Ok(IdleStatus), o, "")
             \/ /\ o = "running"
                /\ Return(t, Ok(status_from_managed(slot[1])), o, "")
                /\ UNCHANGED <<slot, worker, orphans>>
             \/ /\ o = "error"
                /\ Return(t, Err("Failed to check Manager Web process status"), o, "")
                /\ UNCHANGED <<slot, worker, orphans>>
  /\ UNCHANGED nextPid

(***************************************************************************)
(* stop_manager_web                                                        *)
(***************************************************************************)
StopBegin(t) ==
  /\ th[t].pc = "idle"
  /\ Serving
  /\ th' = [th EXCEPT ![t] = [IdleThread EXCEPT !.pc = "stop_lock", !.op = "stop"]]
  /\ ev' = Quiet
  /\ UNCHANGED <<slot, lock, worker, orphans, nextPid>>

\* a variant that answers an error when there is nothing to stop
StopTakeRejectsEmpty(t) ==
  /\ th[t].pc = "stop_lock"
  /\ lock = 0
  /\ \/ /\ slot = <<>>
        /\ Return(t, Err("Manager Web process is not running"), "", "")
        /\ UNCHANGED slot
     \/ /\ slot # <<>>
        /\ slot' = <<>>
        /\ Goto(t, "term_try", slot[1].child, "", "")
  /\ UNCHANGED <<worker, orphans, nextPid>>

\* a variant that terminates the recorded worker in place (guard.as_mut())
\* and leaves the record in the slot
StopTakeInPlace(t) ==
  /\ th[t].pc = "stop_lock"
  /\ lock = 0
  /\ \/ /\ slot = <<>>
        /\ Return(t, Ok(IdleStatus), "", "")
     \/ /\ slot # <<>>
        /\ Goto(t, "term_try", slot[1].child, "", "")
  /\ UNCHANGED <<slot, worker, orphans, nextPid>>

\* lines 252-257: lock, guard.take(); with nothing recorded, line 261
StopTake(t) ==
  /\ th[t].pc = "stop_lock"
  /\ lock = 0
  /\ \/ /\ slot = <<>>
        /\ Return(t, Ok(IdleStatus), "", "")
        /\ UNCHANGED slot
     \/ /\ slot # <<>>
        /\ slot' = <<>>
        /\ Goto(t, "term_try", slot[1].child, "", "")
  /\ UNCHANGED <<worker, orphans, nextPid>>

(***************************************************************************)
(* start_manager_web                                                       *)
(***************************************************************************)
\* a variant that discards the recorded worker before it validates the request
StartBeginResetsFirst(t) ==
  /\ th[t].pc = "idle"
  /\ Serving
  /\ \E v \in StartOutcomes :
           IF v.ok
           THEN /\ th' = [th EXCEPT ![t] = [pc |-> "start_lock", op |-> "start",
                                            req |-> v.val, child |-> 0]]
                /\ ev' = Quiet
                /\ UNCHANGED <<slot, worker, orphans>>
           ELSE /\ th' = th
                /\ ev' = Event("start", "return", 0, "", "", <<v>>, <<>>, <<>>)
                /\ lock = 0
                /\ slot' = <<>>
                /\ DropHandle(worker)
  /\ UNCHANGED <<lock, nextPid>>

\* lines 269-312
StartBegin(t) ==
  /\ th[t].pc = "idle"
  /\ Serving
  /\ \E v \in StartOutcomes :
           IF v.ok
           THEN /\ th' = [th EXCEPT ![t] = [pc |-> "start_lock", op |-> "start",
                                            req |-> v.val, child |-> 0]]
                /\ ev' = Quiet
           ELSE /\ th' = th
                /\ ev' = Event("start", "return", 0, "", "", <<v>>, <<>>, <<>>)
  /\ UNCHANGED <<slot, lock, worker, orphans, nextPid>>

\* a variant that also compares the address the worker listens on
same_target_and_url(existing, req) ==
  /\ existing.workspace_dir = req.workspace_dir
  /\ existing.project_id = req.project_id
  /\ existing.url = FormatUrl(req.host, req.port)

\* line 322
same_target(existing, req) ==
  existing.workspace_dir = req.workspace_dir /\ existing.project_id = req.project_id

\* a variant that compares the target before it polls the worker
StartPollTargetFirst(t) ==
  /\ th[t].pc = "start_lock"
  /\ lock = 0
  /\ \/ /\ slot = <<>>
        /\ Goto(t, "start_spawn", 0, "", "")
        /\ UNCHANGED <<slot, worker, orphans>>
     \/ /\ slot # <<>>
        /\ \E o \in TryWaitOutcomes :
             \/ /\ o \in {"running", "exited"}
                /\ same_target(slot[1], th[t].req[1])
                /\ Return(t, Ok(status_from_managed(slot[1])), o, "")
                /\ UNCHANGED <<slot, worker, orphans>>
             \/ /\ o = "running"
                /\ ~same_target(slot[1], th[t].req[1])
                /\ Goto(t, "term_try", slot[1].child, o, "")
                /\ UNCHANGED <<slot, worker, orphans>>
             \/ /\ o = "exited"
                /\ ~same_target(slot[1], th[t].req[1])
                /\ slot' = <<>>
                /\ DropHandle(worker)
                /\ Goto(t, "start_spawn", 0, o, "")
             \/ /\ o = "error"
                /\ Return(t, Err("Failed to inspect existing Manager Web process"), o, "")
                /\ UNCHANGED <<slot, worker, orphans>>
  /\ UNCHANGED nextPid

\* lines 314-336, under the guard
StartPoll(t) ==
  /\ th[t].pc = "start_lock"
  /\ lock = 0
  /\ \/ /\ slot = <<>>
        /\ Goto(t, "start_spawn", 0, "", "")
        /\ UNCHANGED <<slot, worker, orphans>>
     \/ /\ slot # <<>>
        /\ \E o \in TryWaitOutcomes :
             \/ /\ o = "running"
                /\ same_target(slot[1], th[t].req[1])
                /\ Return(t, Ok(status_from_managed(slot[1])), o, "")
                /\ UNCHANGED <<slot, worker, orphans>>
             \/ /\ o = "running"
                /\ ~same_target(slot[1], th[t].req[1])
                /\ Goto(t, "term_try", slot[1].child, o, "")
                /\ UNCHANGED <<slot, worker, orphans>>
             \/ /\ o = "exited"
                /\ slot' = <<>>
                /\ DropHandle(worker)
                /\ Goto(t, "start_spawn", 0, o, "")
             \/ /\ o = "error"
                /\ Return(t, Err("Failed to inspect existing Manager Web process"), o, "")
                /\ UNCHANGED <<slot, worker, orphans>>
  /\ UNCHANGED nextPid

\* a variant that records the new worker before the spawn has answered
StartSpawnRecordsFirst(t) ==
  /\ th[t].pc = "start_spawn"
  /\ LET req == th[t].req[1]
         managed == [child |-> nextPid, url |-> FormatUrl(req.host, req.port),
                     workspace_dir |-> req.workspace_dir, project_id |-> req.project_id]
     IN  /\ slot' = <<managed>>
         /\ \/ /\ nextPid <= MaxPid
               /\ worker' = "alive"
               /\ nextPid' = nextPid + 1
               /\ Return(t, Ok(status_from_managed(managed)), "", "spawn_ok")
               /\ UNCHANGED orphans
            \/ /\ Return(t, Err("Failed to start Manager Web process"), "", "spawn_error")
               /\ UNCHANGED <<worker, orphans, nextPid>>

\* lines 338-391: spawn, record, return
StartSpawn(t) ==
  /\ th[t].pc = "start_spawn"
  /\ LET req == th[t].req[1]
         managed == [child |-> nextPid, url |-> FormatUrl(req.host, req.port),
                     workspace_dir |-> req.workspace_dir, project_id |-> req.project_id]
     IN  \/ /\ nextPid <= MaxPid
            /\ worker' = "alive"
            /\ nextPid' = nextPid + 1
            /\ slot' = <<managed>>
            /\ Return(t, Ok(status_from_managed(managed)), "", "spawn_ok")
            /\ UNCHANGED orphans
         \/ /\ Return(t, Err("Failed to start Manager Web process"), "", "spawn_error")
            /\ UNCHANGED <<slot, worker, orphans, nextPid>>

(***************************************************************************)
(* bootstrap_workspace and onboard_agent.  Neither takes the state: they   *)
(* touch no variable but the caller's own locals.                          *)
(***************************************************************************)
\* a one-shot command returns res; cmd is the child it ran in this step, if any
JobReturn(t, res, cmd) ==
  /\ th' = [th EXCEPT ![t] = IdleThread]
  /\ ev' = Event(th[t].op, "return", 0, "", "", <<res>>, th[t].req, cmd)

\* a variant that runs the child under the lock of the slot
BootstrapBeginLocks(t) ==
  /\ th[t].pc = "idle"
  /\ Serving
  /\ lock = 0
  /\ \E v \in BootstrapOutcomes :
           IF v.ok
           THEN /\ th' = [th EXCEPT ![t] = [pc |-> "boot_run", op |-> "bootstrap",
                                            req |-> v.val, child |-> 0]]
                /\ ev' = Quiet
                /\ lock' = t
           ELSE /\ th' = th
                /\ ev' = Event("bootstrap", "return", 0, "", "", <<v>>, <<>>, <<>>)
                /\ lock' = lock
  /\ UNCHANGED <<slot, worker, orphans, nextPid>>

\* lines 396-443
BootstrapBegin(t) ==
  /\ th[t].pc = "idle"
  /\ Serving
  /\ \E v \in BootstrapOutcomes :
           IF v.ok
           THEN /\ th' = [th EXCEPT ![t] = [pc |-> "boot_run", op |-> "bootstrap",
                                            req |-> v.val, child |-> 0]]
                /\ ev' = Quiet
           ELSE /\ th' = th
                /\ ev' = Event("bootstrap", "return", 0, "", "", <<v>>, <<>>, <<>>)
  /\ UNCHANGED <<slot, lock, worker, orphans, nextPid>>

\* lines 444-454: run the child to its end, decode its output
BootstrapRun(t) ==
  /\ th[t].pc = "boot_run"
  /\ \E out \in ChildOutputs :
       LET cmd == <<[sub |-> "workspace:bootstrap", team |-> <<>>, out |-> out]>>
       IN  \/ /\ ~out.spawned
              /\ JobReturn(t, Err("Failed to run workspace bootstrap"), cmd)
           \/ /\ out.spawned /\ ~out.success
              /\ JobReturn(t, FailureDetail("Workspace bootstrap failed", out), cmd)
           \/ /\ out.spawned /\ out.success
              /\ JobReturn(t, parse_cli_json_output(out.stdout), cmd)
  /\ UNCHANGED <<slot, lock, worker, orphans, nextPid>>

\* lines 459-488
OnboardBegin(t) ==
  /\ th[t].pc = "idle"
  /\ Serving
  /\ \E v \in OnboardOutcomes :
           IF v.ok
           THEN /\ th' = [th EXCEPT ![t] =
                            [pc |-> IF NeedsTeam(v.val[1]) THEN "onb_team" ELSE "onb_agent",
                             op |-> "onboard", req |-> v.val, child |-> 0]]
                /\ ev' = Quiet
           ELSE /\ th' = th
                /\ ev' = Event("onboard", "return", 0, "", "", <<v>>, <<>>, <<>>)
  /\ UNCHANGED <<slot, lock, worker, orphans, nextPid>>

\* lines 489-508: team:new
OnboardTeam(t) ==
  /\ th[t].pc = "onb_team"
  /\ \E out \in ChildOutputs :
       LET cmd == <<[sub |-> "team:new", team |-> <<>>, out |-> out]>>
           parsed == parse_cli_text_output(out.stdout)
       IN  \/ /\ ~out.spawned
              /\ JobReturn(t, Err("Failed to create team"), cmd)
           \/ /\ out.spawned /\ ~out.success
              /\ JobReturn(t, FailureDetail("Team onboarding failed", out), cmd)
           \/ /\ out.spawned /\ out.success /\ ~parsed.ok
              /\ JobReturn(t, parsed, cmd)
           \/ /\ out.spawned /\ out.success /\ parsed.ok
              /\ th' = [th EXCEPT ![t].pc = "onb_agent",
                                  ![t].req = <<[@[1] EXCEPT !.team_id = parsed.val,
                                                            !.created_team = TRUE]>>]
              /\ ev' = Event("onboard", "step", 0, "", "", <<>>, th'[t].req, cmd)
  /\ UNCHANGED <<slot, lock, worker, orphans, nextPid>>

\* lines 512-549: agent:new
OnboardAgent(t) ==
  /\ th[t].pc = "onb_agent"
  /\ \E out \in ChildOutputs :
       LET req == th[t].req[1]
           cmd == <<[sub |-> "agent:new", team |-> req.team_id, out |-> out]>>
           parsed == parse_cli_text_output(out.stdout)
       IN  \/ /\ ~out.spawned
              /\ JobReturn(t, Err("Failed to onboard agent"), cmd)
           \/ /\ out.spawned /\ ~out.success
              /\ JobReturn(t, FailureDetail("Agent onboarding failed", out), cmd)
           \/ /\ out.spawned /\ out.success /\ ~parsed.ok
              /\ JobReturn(t, parsed, cmd)
           \/ /\ out.spawned /\ out.success /\ parsed.ok
              /\ JobReturn(t, Ok([agent_id |-> parsed.val[1], role |-> req.role,
                                  team_id |-> req.team_id,
                                  created_team |-> req.created_team]), cmd)
  /\ UNCHANGED <<slot, lock, worker, orphans, nextPid>>

(***************************************************************************)
(* Validation and resolution on their own: each step applies one of them   *)
(* to a request and an environment and records the request (req), the      *)
(* environment (cmd) and the answer (ret).                                 *)
(***************************************************************************)
\* role strings a caller can send
RoleInputs ==
  { S_human, S_ceo, S_director, S_manager, S_worker, S_admin, <<>>,
    <<"M">> \o Tail(S_manager), <<" ", "C", "E", "O", " ">>,
    <<" ">> \o S_director \o <<"\n">>, <<"H", "U", "M", "A", "N">>,
    S_worker \o <<"s">> }

\* override strings a caller can send for the entrypoint
ExplicitInputs ==
  { <<>>, <<BuiltCli>>, <<<<" ">> \o BuiltCli \o <<" ">>>>, <<CustomCli>>,
    <<MissingCli>>, <<<<" ">>>>, <<<<>>>> }

\* start_manager_web, lines 269-312
StartValidation ==
  /\ \E args \in StartInputs \cup {[BaseStart EXCEPT !.actor_role = <<r>>] : r \in RoleInputs},
        env \in Envs :
       ev' = Event("start", "validated", 0, "", "", <<ValidateStart(args, env)>>,
                   <<args>>, <<env>>)
  /\ UNCHANGED <<slot, lock, worker, orphans, nextPid, th>>

\* onboard_agent, lines 459-483
OnboardValidation ==
  /\ \E args \in OnboardInputs \cup {[BaseOnboard EXCEPT !.role = r] : r \in RoleInputs},
        env \in Envs :
       ev' = Event("onboard", "validated", 0, "", "", <<ValidateOnboard(args, env)>>,
                   <<args>>, <<env>>)
  /\ UNCHANGED <<slot, lock, worker, orphans, nextPid, th>>

\* resolve_cli_path, lines 177-207
Resolution ==
  /\ \E explicit \in ExplicitInputs, env \in Envs :
       ev' = Event("resolve", "resolved", 0, "", "", <<resolve_cli_path(explicit, env)>>,
                   <<explicit>>, <<env>>)
  /\ UNCHANGED <<slot, lock, worker, orphans, nextPid, th>>

NextCalls == StartValidation \/ OnboardValidation \/ Resolution

(***************************************************************************)
(* Drop for UiProcessState: the host shuts down.  drop takes &mut self, so *)
(* no command is running; afterwards no command is served.                 *)
(***************************************************************************)
\* lines 79-81: lock, guard.take()
DropTake(t) ==
  /\ Serving
  /\ \A u \in Threads : th[u].pc = "idle"
  /\ lock = 0
  /\ \/ /\ slot = <<>>
        /\ DropDone(t, 0, "", "")
        /\ UNCHANGED slot
     \/ /\ slot # <<>>
        /\ slot' = <<>>
        /\ th' = [th EXCEPT ![t] = [pc |-> "term_try", op |-> "drop", req |-> <<>>,
                                    child |-> slot[1].child]]
        /\ lock' = t
        /\ ev' = Event("drop", "step", slot[1].child, "", "", <<>>, <<>>, <<>>)
  /\ UNCHANGED <<worker, orphans, nextPid>>

\* the host shuts down
NextDrop == \E t \in Threads : DropTake(t)

\* the supervisor's commands and the operating system
NextSup ==
  \/ \E t \in Threads :
       \/ StartBegin(t) \/ StartPoll(t) \/ StartSpawn(t)
       \/ StopBegin(t) \/ StopTake(t)
       \/ StatusBegin(t) \/ StatusPoll(t)
       \/ TermTryWait(t) \/ TermKill(t) \/ TermWait(t)
  \/ WorkerExit
  \/ OrphanExit

\* the one-shot commands
NextJobs ==
  \E t \in Threads :
    \/ BootstrapBegin(t) \/ BootstrapRun(t)
    \/ OnboardBegin(t) \/ OnboardTeam(t) \/ OnboardAgent(t)

Next == NextSup \/ NextJobs \/ NextDrop

Spec == Init /\ [][Next]_vars

SpecSup == Init /\ [][NextSup]_vars

SpecJobs == Init /\ [][NextJobs]_vars

\* scheduling: a command that waits for the lock gets it when it is free again
\* and again (the Mutex is granted to each waiter in the end), and a command
\* that holds it takes its next step; Child::wait returns once the process
\* has gone, which a killed process does
FairSup ==
  \A t \in Threads :
    /\ SF_vars(StartPoll(t)) /\ SF_vars(StopTake(t)) /\ SF_vars(StatusPoll(t))
    /\ WF_vars(StartSpawn(t))
    /\ WF_vars(TermTryWait(t)) /\ WF_vars(TermKill(t)) /\ WF_vars(TermWait(t))

\* the supervisor under fair scheduling
SpecLive == Init /\ [][NextSup]_vars /\ FairSup

\* validation and resolution applied to the requests callers can send
SpecCalls == Init /\ [][NextCalls]_vars

\* the supervisor up to and through the shutdown of the host
SpecHost == Init /\ [][NextSup \/ NextDrop]_vars


(***************************************************************************)
(* Properties of the supervisor.                                           *)
(***************************************************************************)
\* the workers that have been spawned and have not exited: the one behind the
\* handle, and those whose handle was dropped
LiveWorkers == (IF worker \in {"alive", "killed"} THEN 1 ELSE 0) + orphans

\* the target key of a recorded worker and of a request
SameKey(m, r) == m.workspace_dir = r.workspace_dir /\ m.project_id = r.project_id

\* the status that reports the recorded worker m
ReportsWorker(s, m) ==
  /\ s.running
  /\ s.pid = <<m.child>>
  /\ s.url = <<m.url>>
  /\ s.workspace_dir = <<m.workspace_dir>>
  /\ s.project_id = <<m.project_id>>

\* thread t takes a step
Steps(t) == th'[t] # th[t]

\* C1: in every reachable state at most one worker spawned by Start is alive,
\* and the slot holds at most one ManagedProcess record.
C1_AtMostOneWorker ==
  /\ LiveWorkers <= 1
  /\ Len(slot) <= 1

\* C2: a Start whose target key equals that of the recorded worker, found
\* alive, returns the status of that worker (its pid, its url with the host
\* and port of its launch, its workspaceDir and projectId: what the Start
\* that spawned it returned), spawns nothing and leaves the slot as it is,
\* whatever host and port the request names.
C2_SameTargetReturnsExisting ==
  /\ [][(/\ ev'.op = "start"
         /\ ev'.poll = "running"
         /\ slot # <<>>
         /\ SameKey(slot[1], ev'.req[1]))
        => /\ ev'.act = "return"
           /\ ev'.ret[1].ok
           /\ ReportsWorker(ev'.ret[1].val[1], slot[1])
           /\ ev'.sys = ""
           /\ UNCHANGED <<slot, worker, orphans, nextPid>>]_vars
  /\ [](ev.sys = "spawn_ok"
        => /\ slot # <<>>
           /\ ev.ret[1].ok
           /\ ReportsWorker(ev.ret[1].val[1], slot[1]))
  /\ [][slot' # slot => (slot' = <<>> \/ ev'.sys = "spawn_ok")]_vars

\* a Start for the target of the live recorded worker, naming another port,
\* has returned the recorded worker's status
C2_Witness ==
  /\ ev.op = "start"
  /\ ev.act = "return"
  /\ ev.poll = "running"
  /\ slot # <<>>
  /\ worker = "alive"
  /\ SameKey(slot[1], ev.req[1])
  /\ FormatUrl(ev.req[1].host, ev.req[1].port) # slot[1].url
  /\ ev.ret[1].ok
  /\ ev.ret[1].val[1].url = <<slot[1].url>>

\* C3: when Start replaces a recorded worker of another target, the old
\* worker's exit is confirmed before the new process is spawned and recorded;
\* after the successful Start exactly one worker is alive and the slot records
\* the new target.
C3_ReplaceLeavesOneWorker ==
  /\ [][(/\ ev'.op = "start"
         /\ ev'.child # 0
         /\ \E t \in Threads : th'[t].pc = "start_spawn" /\ th[t].pc # "start_spawn")
        => /\ ev'.poll = "exited" \/ ev'.sys = "wait_ok"
           /\ slot' = <<>>
           /\ orphans' = orphans
           /\ nextPid' = nextPid]_vars
  /\ []((ev.op = "start" /\ ev.sys = "spawn_ok" /\ ev.child # 0)
        => /\ LiveWorkers = 1
           /\ slot # <<>>
           /\ SameKey(slot[1], ev.req[1])
           /\ slot[1].child # ev.child)

\* C4: once the recorded worker has exited, the Status that polls it empties
\* the slot and returns idle; a Status on an empty slot returns idle and
\* leaves it empty; and only a Start that spawns fills an empty slot.
C4_StatusClearsExitedOnce ==
  /\ [][(/\ ev'.op = "status"
         /\ ev'.act = "return"
         /\ slot # <<>>
         /\ worker = "exited"
         /\ ev'.poll # "error")
        => /\ slot' = <<>>
           /\ ev'.ret = <<Ok(IdleStatus)>>
           /\ nextPid' = nextPid]_vars
  /\ [][(ev'.op = "status" /\ ev'.act = "return" /\ slot = <<>>)
        => /\ slot' = <<>>
           /\ ev'.ret = <<Ok(IdleStatus)>>
           /\ UNCHANGED <<worker, orphans, nextPid>>]_vars
  /\ [][(slot = <<>> /\ slot' # <<>>) => (ev'.op = "start" /\ ev'.sys = "spawn_ok")]_vars

\* a Status has found the recorded worker exited, emptied the slot and
\* returned idle
C4_Witness ==
  /\ ev.op = "status"
  /\ ev.act = "return"
  /\ ev.poll = "exited"
  /\ slot = <<>>
  /\ ev.ret = <<Ok(IdleStatus)>>

\* C5: a Stop that finds the slot empty returns idle without error and
\* leaves the slot empty and every process alone; so does a Stop that comes
\* directly after another Stop has returned, with or without an error.
C5_StopIdempotent ==
  /\ [][\A t \in Threads :
          (th[t].pc = "stop_lock" /\ Steps(t) /\ slot = <<>>)
          => /\ ev'.op = "stop"
             /\ ev'.act = "return"
             /\ ev'.ret = <<Ok(IdleStatus)>>
             /\ slot' = <<>>
             /\ UNCHANGED <<worker, orphans, nextPid>>]_vars
  /\ [][\A t \in Threads :
          (th[t].pc = "stop_lock" /\ Steps(t) /\ ev.op = "stop" /\ ev.act = "return")
          => /\ ev'.ret = <<Ok(IdleStatus)>>
             /\ slot' = <<>>]_vars

\* a Stop has returned idle from an empty slot after an earlier Stop failed
\* to terminate its worker
C5_Witness ==
  /\ ev.op = "stop"
  /\ ev.act = "return"
  /\ ev.child = 0
  /\ ev.ret = <<Ok(IdleStatus)>>
  /\ slot = <<>>
  /\ orphans > 0

\* how far a Stop has come
StopRank(pc) ==
  CASE pc = "stop_lock" -> 0
    [] pc = "term_try" -> 1
    [] pc = "term_kill" -> 2
    [] pc = "term_wait" -> 3
    [] OTHER -> 4

\* C6: from the moment Stop holds the lock, and when it has returned, with an
\* error or without, the slot is empty; Stop terminates only the worker it
\* took out of the slot, goes through try_wait, kill and wait once each, and
\* a worker taken out never comes back into the slot.
C6_StopClearsSlot ==
  /\ []((ev.op = "stop" /\ ev.act = "return") => slot = <<>>)
  /\ [](\A t \in Threads : (th[t].op = "stop" /\ lock = t) => slot = <<>>)
  /\ [][\A t \in Threads :
          (th[t].op = "stop" /\ Steps(t))
          => /\ StopRank(th'[t].pc) > StopRank(th[t].pc)
             /\ (th'[t].pc = "term_try"
                 => slot # <<>> /\ th'[t].child = slot[1].child /\ slot' = <<>>)]_vars
  /\ [][(slot' # slot /\ slot' # <<>>)
        => /\ slot'[1].child = nextPid
           /\ nextPid' = nextPid + 1
           /\ \A t \in Threads : th[t].child < nextPid]_vars

\* a Stop whose wait on the worker failed has returned its error, and the
\* slot is empty
C6_Witness ==
  /\ ev.op = "stop"
  /\ ev.act = "return"
  /\ ev.sys = "wait_error"
  /\ ~ev.ret[1].ok
  /\ slot = <<>>

(***************************************************************************)
(* Properties of failing and of one-shot commands.                         *)
(***************************************************************************)
\* the errors of validation (lines 269-309, 396-399, 459-474)
ValidationErrors ==
  {"workspace_dir is required", "project_id is required", "actor_id cannot be empty",
   "actor_role must be one of", "host cannot be empty",
   "port must be between 1 and 65535", "name is required", "role must be one of",
   "provider is required"}

\* the errors of entrypoint resolution (lines 177-207)
ResolutionErrors ==
  {"CLI path does not exist", "AGENTCOMPANY_CLI_PATH is set but does not exist",
   "Unable to find dist/cli.js"}

\* a request with an empty required field, a role outside the accepted set,
\* port 0 or an entrypoint that does not resolve is rejected
InvalidRequestsRejected ==
  /\ \A args \in StartInputs, env \in Envs :
       (\/ Trim(args.workspace_dir) = <<>>
        \/ Trim(args.project_id) = <<>>
        \/ ~valid_actor_role(Trim(UnwrapOr(args.actor_role, S_manager)))
        \/ args.port = <<0>>
        \/ ~resolve_cli_path(args.cli_path, env).ok)
       => LET v == ValidateStart(args, env)
          IN  ~v.ok /\ v.err \in ValidationErrors \cup ResolutionErrors
  /\ \A args \in BootstrapInputs, env \in Envs :
       (Trim(args.workspace_dir) = <<>> \/ ~resolve_cli_path(args.cli_path, env).ok)
       => LET v == ValidateBootstrap(args, env)
          IN  ~v.ok /\ v.err \in ValidationErrors \cup ResolutionErrors
  /\ \A args \in OnboardInputs, env \in Envs :
       (\/ Trim(args.workspace_dir) = <<>>
        \/ Trim(args.name) = <<>>
        \/ ~valid_agent_role(ToLowercase(Trim(args.role)))
        \/ Trim(args.provider) = <<>>
        \/ ~resolve_cli_path(args.cli_path, env).ok)
       => LET v == ValidateOnboard(args, env)
          IN  ~v.ok /\ v.err \in ValidationErrors \cup ResolutionErrors

\* C7: a Start, BootstrapWorkspace or OnboardAgent call that fails validation
\* or entrypoint resolution returns its error in a step that spawns nothing,
\* runs no child, kills no worker and leaves the slot, the lock and every
\* process as they were.
C7_RejectedCallsTouchNothing ==
  /\ [](InvalidRequestsRejected)
  /\ [][(/\ ev'.act = "return"
         /\ ev'.ret[1].err \in ValidationErrors \cup ResolutionErrors)
        => /\ ev'.op \in {"start", "bootstrap", "onboard"}
           /\ ~ev'.ret[1].ok
           /\ ev'.sys = ""
           /\ ev'.poll = ""
           /\ ev'.cmd = <<>>
           /\ UNCHANGED <<slot, lock, worker, orphans, nextPid>>]_vars

\* a Start naming port 0 has been rejected while a worker is recorded and
\* alive, and the record is still there
C7_Witness ==
  /\ ev.op = "start"
  /\ ev.act = "return"
  /\ ev.ret[1].err = "port must be between 1 and 65535"
  /\ slot # <<>>
  /\ worker = "alive"

\* C8: when the spawn fails, Start returns an error, allocates and records
\* nothing and leaves the slot as the liveness check left it, which is empty;
\* a record in the slot always has the handle of a process that was spawned.
C8_SpawnFailureRecordsNothing ==
  /\ [][ev'.sys = "spawn_error"
        => /\ ev'.op = "start"
           /\ ev'.act = "return"
           /\ ~ev'.ret[1].ok
           /\ slot = <<>>
           /\ UNCHANGED <<slot, worker, orphans, nextPid>>]_vars
  /\ [](slot # <<>> => (worker # "none" /\ slot[1].child = nextPid - 1))
  /\ [](slot = <<>> => (worker = "none" \/ \E t \in Threads : lock = t /\ th[t].op = "stop"))

\* a Start that had terminated the worker of another target failed to spawn
\* and returned its error; the slot is empty
C8_Witness ==
  /\ ev.op = "start"
  /\ ev.sys = "spawn_error"
  /\ ev.child # 0
  /\ ~ev.ret[1].ok
  /\ slot = <<>>
  /\ nextPid <= MaxPid

\* the request of the last step asks for a team by name and gives no team id
AsksForTeam == ev.req[1].given_team_id = <<>> /\ ev.req[1].team_name # <<>>

\* the team-creation child of the last step exited nonzero, did not run, or
\* left nothing readable on its output
TeamCreationFailed ==
  LET out == ev.cmd[1].out
  IN  ~out.spawned \/ ~out.success \/ ~IsUtf8(out.stdout) \/ Trim(out.stdout) = <<>>

\* an agent-creation child run for a request that fits (eligible) comes after
\* a team was created, and is given the identifier that was minted
AgentAfterTeam(eligible) ==
  (/\ ev.cmd # <<>>
   /\ ev.cmd[1].sub = "agent:new"
   /\ eligible)
  => /\ ev.req[1].created_team
     /\ ev.req[1].team_id # <<>>
     /\ ev.cmd[1].team = ev.req[1].team_id

\* a team-creation child is run only for a request that asks for a team; when
\* it fails the command returns an error there and then, and when it succeeds
\* the command goes on with the identifier read from its output
TeamCreationDecides ==
  (/\ ev.cmd # <<>>
   /\ ev.cmd[1].sub = "team:new")
  => /\ AsksForTeam
     /\ IF TeamCreationFailed
        THEN ev.act = "return" /\ ~ev.ret[1].ok
        ELSE /\ ev.act = "step"
             /\ ev.req[1].created_team
             /\ ev.req[1].team_id = <<Trim(ev.cmd[1].out.stdout)>>

\* a command reaches agent creation with a created team only from a
\* team-creation child that succeeded, and keeps its request until it runs
\* the agent-creation child
TeamBeforeAgent ==
  \A t \in Threads :
    /\ (th'[t].pc = "onb_agent" /\ th[t].pc # "onb_agent" /\ th'[t].req[1].created_team)
       => /\ th[t].pc = "onb_team"
          /\ ev'.cmd[1].sub = "team:new"
          /\ ev'.cmd[1].out.success
    /\ (th'[t].pc = "onb_agent" /\ th[t].pc = "onb_agent") => th'[t] = th[t]

\* C9, as stated: for every valid OnboardAgent request with no teamId (absent,
\* or empty after trimming) and a non-empty teamName, a team is created before
\* any agent-creation child is run; if team creation exits nonzero or yields
\* empty output the command fails without running an agent-creation child;
\* otherwise the minted identifier is passed as the agent's team.
C9_TeamCreatedForEveryRole ==
  /\ [](AgentAfterTeam(AsksForTeam) /\ TeamCreationDecides)
  /\ [][TeamBeforeAgent]_vars

\* C9, for the roles other than ceo: such a request with role director,
\* manager or worker has its team created first, fails without an agent
\* creation when team creation fails, and passes the minted identifier on;
\* with role ceo no team is created and the agent is created without one.
C9_TeamCreatedUnlessCeo ==
  /\ [](/\ AgentAfterTeam(AsksForTeam /\ ev.req[1].role # S_ceo)
        /\ TeamCreationDecides
        /\ (/\ ev.cmd # <<>>
            /\ ev.cmd[1].sub = "agent:new"
            /\ AsksForTeam
            /\ ev.req[1].role = S_ceo)
           => (~ev.req[1].created_team /\ ev.cmd[1].team = <<>>))
  /\ [][TeamBeforeAgent]_vars

\* a worker was onboarded into a team created for it: the agent-creation
\* child got the minted identifier and the command returned it
C9_Witness ==
  /\ ev.op = "onboard"
  /\ ev.act = "return"
  /\ ev.cmd # <<>>
  /\ ev.cmd[1].sub = "agent:new"
  /\ AsksForTeam
  /\ ev.req[1].role = S_worker
  /\ ev.req[1].created_team
  /\ ev.cmd[1].team = ev.req[1].team_id
  /\ ev.ret[1].ok
  /\ ev.ret[1].val[1].team_id = ev.req[1].team_id

(***************************************************************************)
(* Serialization.                                                          *)
(***************************************************************************)
\* where a command is between taking the lock and returning
InCritical(pc) == pc \in {"term_try", "term_kill", "term_wait", "start_spawn"}

\* where a command waits for the lock
AtLock(pc) == pc \in {"start_lock", "stop_lock", "status_lock"}

\* C10: Start, Stop and Status are serialized over the slot.  A command is
\* between its check and its last change exactly while it holds the lock; the
\* lock is taken only when free, by a command waiting for it, and given up
\* only by its holder, on return; the slot, the handle and the pid counter
\* change only in steps of the holder or of the command that takes the free
\* lock.  So a Start spawns only with nothing recorded, and a Start that
\* succeeds without spawning returns the recorded worker: of two concurrent
\* Starts for one target on an empty slot one spawns and the other returns
\* the same status.
C10_Serialized ==
  /\ [](/\ \A t \in Threads : InCritical(th[t].pc) <=> lock = t
        /\ lock \in {0} \cup Threads)
  /\ [][\A t \in Threads :
          /\ (lock # t /\ lock' = t) => (lock = 0 /\ AtLock(th[t].pc))
          /\ (lock = t /\ lock' # t) => (lock' = 0 /\ th'[t].pc = "idle")
          /\ (lock = t /\ Steps(t)) => (lock' = t \/ th'[t].pc = "idle")]_vars
  /\ [][(slot' # slot \/ nextPid' # nextPid \/ (worker' # worker /\ ev'.op # ""))
        => \E t \in Threads :
             /\ Steps(t)
             /\ lock = t \/ (lock = 0 /\ AtLock(th[t].pc))
             /\ \A u \in Threads \ {t} : ~Steps(u)]_vars
  /\ [][ev'.sys = "spawn_ok"
        => /\ slot = <<>>
           /\ worker = "none"
           /\ nextPid' = nextPid + 1]_vars
  /\ [][(/\ ev'.op = "start"
         /\ ev'.act = "return"
         /\ ev'.ret[1].ok
         /\ ev'.sys # "spawn_ok")
        => /\ slot # <<>>
           /\ ReportsWorker(ev'.ret[1].val[1], slot[1])
           /\ UNCHANGED <<slot, nextPid>>]_vars

\* two Starts for one target run against the empty slot: one holds the lock
\* and is about to spawn the first worker, the other waits for the lock
C10_Witness ==
  \E t, u \in Threads :
    /\ t # u
    /\ lock = t
    /\ th[t].pc = "start_spawn"
    /\ th[u].pc = "start_lock"
    /\ SameKey(th[t].req[1], th[u].req[1])
    /\ slot = <<>>
    /\ nextPid = 1

(***************************************************************************)
(* Teardown.                                                               *)
(***************************************************************************)
\* C11: when the supervisor state is torn down, the slot is emptied and the
\* worker it recorded is terminated: when drop is over that worker is not
\* alive.
C11_TeardownTerminatesRecorded ==
  /\ [](\A t \in Threads : th[t].op = "drop" => slot = <<>>)
  /\ [][(ev'.op = "drop" /\ ev'.act = "done" /\ ev'.child # 0)
        => /\ worker' = "none"
           /\ orphans' = orphans]_vars

(***************************************************************************)
(* Status, roles, resolution.                                              *)
(***************************************************************************)
\* C12: Status does not touch the worker.  A recorded worker that has not
\* exited is, after a Status, as it was and recorded as it was, and the Status
\* whose poll answered reports it running with its url, pid and target key;
\* whatever Status finds it spawns nothing and kills nothing, and the one
\* change it can make is to empty the slot of a worker that has exited.
C12_StatusLeavesWorker ==
  /\ [][\A t \in Threads :
          (th[t].op = "status" /\ Steps(t) /\ slot # <<>> /\ worker # "exited")
          => /\ UNCHANGED <<slot, worker, orphans, nextPid>>
             /\ ev'.op = "status"
             /\ ev'.act = "return"
             /\ ev'.sys = ""
             /\ (ev'.poll # "error"
                 => (ev'.ret[1].ok /\ ReportsWorker(ev'.ret[1].val[1], slot[1])))]_vars
  /\ [][\A t \in Threads :
          (th[t].op = "status" /\ Steps(t))
          => /\ UNCHANGED <<orphans, nextPid>>
             /\ \/ UNCHANGED <<slot, worker>>
                \/ /\ slot # <<>>
                   /\ worker = "exited"
                   /\ slot' = <<>>
                   /\ worker' = "none"]_vars

\* a Status has reported the live recorded worker, which is still recorded
\* and alive
C12_Witness ==
  /\ ev.op = "status"
  /\ ev.act = "return"
  /\ ev.poll = "running"
  /\ slot # <<>>
  /\ worker = "alive"
  /\ ev.ret[1].ok
  /\ ReportsWorker(ev.ret[1].val[1], slot[1])

\* the request, the environment and the answer of the last step
LastArgs == ev.req[1]
LastEnv == ev.cmd[1]
LastAnswer == ev.ret[1]

\* C13: roles are validated by closed set after trimming and lower-casing: a
\* Start request that is valid otherwise is accepted iff its actorRole,
\* trimmed and lower-cased, is one of human, ceo, director, manager, worker,
\* an OnboardAgent request that is valid otherwise iff its role, trimmed and
\* lower-cased, is one of ceo, director, manager, worker; any other value
\* yields the validation error of the role.
C13_RolesByClosedSet ==
  /\ (/\ ev.op = "start"
      /\ ev.act = "validated"
      /\ Trim(LastArgs.workspace_dir) # <<>>
      /\ Trim(LastArgs.project_id) # <<>>
      /\ Trim(UnwrapOr(LastArgs.actor_id, S_human)) # <<>>
      /\ Trim(UnwrapOr(LastArgs.host, DefaultHost)) # <<>>
      /\ UnwrapOr(LastArgs.port, DefaultPort) # 0
      /\ resolve_cli_path(LastArgs.cli_path, LastEnv).ok)
     => LET role == ToLowercase(Trim(UnwrapOr(LastArgs.actor_role, S_manager)))
        IN  /\ LastAnswer.ok <=> role \in {S_human, S_ceo, S_director, S_manager, S_worker}
            /\ ~LastAnswer.ok => LastAnswer.err = "actor_role must be one of"
  /\ (/\ ev.op = "onboard"
      /\ ev.act = "validated"
      /\ Trim(LastArgs.workspace_dir) # <<>>
      /\ Trim(LastArgs.name) # <<>>
      /\ Trim(LastArgs.provider) # <<>>
      /\ resolve_cli_path(LastArgs.cli_path, LastEnv).ok)
     => LET role == ToLowercase(Trim(LastArgs.role))
        IN  /\ LastAnswer.ok <=> role \in {S_ceo, S_director, S_manager, S_worker}
            /\ ~LastAnswer.ok => LastAnswer.err = "role must be one of"

\* the answer is the first discovery candidate that is a file, or the error
\* of a sweep that found none
FirstCandidateOrError(ans, env) ==
  LET c == discover_cli_candidates(env)
  IN  IF \E i \in DOMAIN c : c[i] \in env.files
      THEN \E i \in DOMAIN c :
             /\ c[i] \in env.files
             /\ \A j \in 1..(i - 1) : c[j] \notin env.files
             /\ ans = Ok(c[i])
      ELSE ~ans.ok /\ ans.err = "Unable to find dist/cli.js"

\* C14: resolution takes the explicit override, then the environment
\* override, then the discovery sweep, then fails.  An explicit override that
\* is non-empty after trimming and names a file is returned; one that names no
\* file fails naming the path; one that is empty after trimming counts as
\* absent: resolution goes on with the environment override, then with the
\* first discovery candidate that exists, and fails when there is none.
C14_ResolutionOrder ==
  (ev.op = "resolve" /\ ev.act = "resolved")
  => LET explicit == LastArgs
         given == explicit # <<>> /\ Trim(explicit[1]) # <<>>
     IN  IF given
         THEN IF Trim(explicit[1]) \in LastEnv.files
              THEN LastAnswer = Ok(Trim(explicit[1]))
              ELSE /\ ~LastAnswer.ok
                   /\ LastAnswer.err = "CLI path does not exist"
                   /\ LastAnswer.detail = Trim(explicit[1])
         ELSE IF LastEnv.cli_env # <<>>
              THEN Trim(LastEnv.cli_env[1]) \in LastEnv.files
                   => LastAnswer = Ok(Trim(LastEnv.cli_env[1]))
              ELSE FirstCandidateOrError(LastAnswer, LastEnv)

(***************************************************************************)
(* One-shot children.                                                      *)
(***************************************************************************)
\* the message of a one-shot command whose child exited nonzero
FailureMessage(sub) ==
  CASE sub = "workspace:bootstrap" -> "Workspace bootstrap failed"
    [] sub = "team:new" -> "Team onboarding failed"
    [] sub = "agent:new" -> "Agent onboarding failed"

\* the errors of the output decoders
DecoderErrors ==
  {"CLI stdout is not valid UTF-8", "CLI returned non-JSON output", "CLI returned empty output"}

\* C15: when the child of a one-shot invocation (workspace bootstrap, team
\* creation, agent creation) exits nonzero the command fails, whatever the
\* child printed, and the detail of its error is the captured standard error
\* if that is non-empty after trimming, else the captured standard output;
\* the output is decoded only after a zero exit.
C15_NonzeroExitFails ==
  (/\ ev.op \in {"bootstrap", "onboard"}
   /\ ev.cmd # <<>>
   /\ ev.cmd[1].out.spawned)
  => LET out == ev.cmd[1].out
         stderr == Trim(Utf8Lossy(out.stderr))
         stdout == Trim(Utf8Lossy(out.stdout))
     IN  IF ~out.success
         THEN /\ ev.act = "return"
              /\ ~ev.ret[1].ok
              /\ ev.ret[1].err = FailureMessage(ev.cmd[1].sub)
              /\ ev.ret[1].err \notin DecoderErrors
              /\ ev.ret[1].detail = IF stderr # <<>> THEN stderr ELSE stdout
         ELSE \/ ev.act = "step"
              \/ /\ ev.act = "return"
                 /\ ev.ret[1].ok \/ ev.ret[1].err \in DecoderErrors
                 /\ ev.ret[1].ok <=> (IsUtf8(out.stdout)
                                       /\ IF ev.cmd[1].sub = "workspace:bootstrap"
                                          THEN IsJson(Trim(out.stdout))
                                          ELSE Trim(out.stdout) # <<>>)

\* a child that printed a well-formed document and only blanks on standard
\* error exited nonzero: the command failed with the document as the detail
C15_Witness ==
  /\ ev.op \in {"bootstrap", "onboard"}
  /\ ev.act = "return"
  /\ ev.cmd # <<>>
  /\ ev.cmd[1].out.spawned
  /\ ~ev.cmd[1].out.success
  /\ ev.cmd[1].out.stderr # <<>>
  /\ Trim(ev.cmd[1].out.stderr) = <<>>
  /\ IsJson(Trim(ev.cmd[1].out.stdout))
  /\ ~ev.ret[1].ok
  /\ ev.ret[1].detail = Trim(ev.cmd[1].out.stdout)

\* the one-shot commands
JobOp(op) == op \in {"bootstrap", "onboard"}

\* C16: BootstrapWorkspace and OnboardAgent never hold the lock of the slot
\* and no step of theirs changes the slot, the lock, the worker or the pid
\* counter; while one of them waits on its child a Start, Stop or Status that
\* waits for the free lock can take it.
C16_JobsLeaveSlot ==
  /\ [](\A t \in Threads : JobOp(th[t].op) => lock # t)
  /\ [][(\/ JobOp(ev'.op)
         \/ \E t \in Threads : Steps(t) /\ (JobOp(th[t].op) \/ JobOp(th'[t].op)))
        => UNCHANGED <<slot, lock, worker, orphans, nextPid>>]_vars
  /\ [](\A t, u \in Threads :
          (JobOp(th[t].op) /\ lock = 0)
          => /\ th[u].pc = "status_lock" => ENABLED StatusPoll(u)
             /\ th[u].pc = "stop_lock" => ENABLED StopTake(u)
             /\ th[u].pc = "start_lock" => ENABLED StartPoll(u))

\* while a bootstrap waits on its child a Status has taken the lock and
\* reported the recorded worker, which is still recorded and alive
C16_Witness ==
  /\ \E t \in Threads : th[t].pc = "boot_run"
  /\ ev.op = "status"
  /\ ev.act = "return"
  /\ ev.poll = "running"
  /\ ev.ret[1].ok
  /\ slot # <<>>
  /\ slot = ev.before
  /\ worker = "alive"

(***************************************************************************)
(* Start and Stop on workers that are gone or will not go.                 *)
(***************************************************************************)
\* C17: a Start that finds the recorded worker exited empties the slot and
\* goes on to spawn as from an empty slot, whether or not its target is the
\* one of the exited worker; its spawn, when it succeeds, records the new
\* worker for the requested target.
C17_ExitedWorkerReplaced ==
  /\ [][\A t \in Threads :
          (/\ th[t].pc = "start_lock"
           /\ Steps(t)
           /\ slot # <<>>
           /\ worker = "exited"
           /\ ev'.poll # "error")
          => /\ slot' = <<>>
             /\ worker' = "none"
             /\ th'[t] = [th[t] EXCEPT !.pc = "start_spawn"]
             /\ lock' = t
             /\ UNCHANGED <<orphans, nextPid>>]_vars
  /\ [][\A t \in Threads :
          (th[t].pc = "start_spawn" /\ Steps(t) /\ ev'.sys # "spawn_error")
          => /\ ev'.sys = "spawn_ok"
             /\ slot = <<>>
             /\ slot' # <<>>
             /\ SameKey(slot'[1], th[t].req[1])
             /\ slot'[1].child = nextPid
             /\ slot'[1].url = FormatUrl(th[t].req[1].host, th[t].req[1].port)
             /\ worker' = "alive"
             /\ nextPid' = nextPid + 1
             /\ ev'.ret[1].ok
             /\ ReportsWorker(ev'.ret[1].val[1], slot'[1])]_vars

\* a Start for the target of the recorded worker has found that worker
\* exited, emptied the slot and is about to spawn
C17_Witness ==
  /\ ev.op = "start"
  /\ ev.act = "step"
  /\ ev.poll = "exited"
  /\ ev.child = 0
  /\ ev.before # <<>>
  /\ SameKey(ev.before[1], ev.req[1])
  /\ slot = <<>>
  /\ \E t \in Threads : lock = t /\ th[t].pc = "start_spawn" /\ th[t].req = ev.req

\* terminate_child has succeeded for thread t: Stop returns idle, Start goes
\* on to spawn with the slot emptied
TerminatedFine(t) ==
  IF th[t].op = "stop"
  THEN /\ th'[t].pc = "idle"
       /\ ev'.act = "return"
       /\ ev'.ret = <<Ok(IdleStatus)>>
       /\ slot' = <<>>
  ELSE /\ th'[t].pc = "start_spawn"
       /\ ev'.act = "step"
       /\ slot' = <<>>

\* C18: terminating a worker that is gone succeeds.  When the worker taken
\* by Stop or by a replacing Start has exited and try_wait says so, the command
\* succeeds and kill is never called; kill is called only after a try_wait
\* that did not report the exit; when kill answers that the process is gone
\* (InvalidInput) this is no error: the command goes on to wait, and with the
\* wait completed it succeeds.
C18_GoneWorkerIsSuccess ==
  /\ [][\A t \in Threads :
          (/\ th[t].op \in {"stop", "start"}
           /\ th[t].pc = "term_try"
           /\ Steps(t)
           /\ worker = "exited"
           /\ ev'.poll # "error")
          => /\ TerminatedFine(t)
             /\ ev'.sys = ""
             /\ worker' = "none"
             /\ orphans' = orphans]_vars
  /\ [][\A t \in Threads :
          (th'[t].pc = "term_kill" /\ Steps(t))
          => /\ th[t].pc = "term_try"
             /\ ev'.poll \in {"running", "error"}]_vars
  /\ [][\A t \in Threads :
          (/\ th[t].op \in {"stop", "start"}
           /\ th[t].pc = "term_kill"
           /\ Steps(t)
           /\ ev'.sys = "kill_invalid_input")
          => /\ worker = "exited"
             /\ th'[t].pc = "term_wait"
             /\ ev'.act = "step"]_vars
  /\ [][\A t \in Threads :
          (/\ th[t].op \in {"stop", "start"}
           /\ th[t].pc = "term_wait"
           /\ Steps(t)
           /\ ev'.sys = "wait_ok")
          => /\ TerminatedFine(t)
             /\ orphans' = orphans]_vars

\* the worker taken by Stop exited after try_wait, kill answered that it is
\* gone, and Stop went on to wait for it
C18_Witness ==
  /\ ev.op = "stop"
  /\ ev.act = "step"
  /\ ev.sys = "kill_invalid_input"
  /\ worker = "exited"
  /\ \E t \in Threads : lock = t /\ th[t].op = "stop" /\ th[t].pc = "term_wait"

\* C19: a Start that fails to poll the recorded worker, or that fails to
\* terminate the worker of another target (kill or wait fails), returns an
\* error, spawns nothing and leaves the record of the old worker in the slot
\* as it was, with its handle; a Stop whose kill or wait fails leaves the slot
\* empty.
C19_FailedReplaceKeepsRecord ==
  /\ [][\A t \in Threads :
          (/\ th[t].op = "start"
           /\ Steps(t)
           /\ \/ ev'.sys \in {"kill_error", "wait_error"}
              \/ th[t].pc = "start_lock" /\ ev'.poll = "error")
          => /\ ev'.act = "return"
             /\ ~ev'.ret[1].ok
             /\ th'[t].pc = "idle"
             /\ lock' = 0
             /\ slot # <<>>
             /\ th[t].pc # "start_lock" => slot[1].child = th[t].child
             /\ worker' # "none"
             /\ UNCHANGED <<slot, orphans, nextPid>>]_vars
  /\ [][\A t \in Threads :
          (/\ th[t].op = "stop"
           /\ Steps(t)
           /\ ev'.sys \in {"kill_error", "wait_error"})
          => /\ ev'.act = "return"
             /\ ~ev'.ret[1].ok
             /\ slot' = <<>>
             /\ worker' = "none"]_vars

\* a Start for another target has killed the recorded worker, failed to wait
\* for it and returned the error; the worker's record is still in the slot
C19_Witness ==
  /\ ev.op = "start"
  /\ ev.act = "return"
  /\ ev.sys = "wait_error"
  /\ ~ev.ret[1].ok
  /\ slot # <<>>
  /\ slot = ev.before
  /\ slot[1].child = ev.child
  /\ ~SameKey(slot[1], ev.req[1])
  /\ worker = "killed"

(***************************************************************************)
(* The lock.                                                               *)
(***************************************************************************)
\* C20: every Start, Stop and Status gives the lock up when it returns, with
\* a result or an error, so no command that has returned holds it; and under
\* fair scheduling, a killed process going in the end, every command that
\* waits for the lock gets it and returns.
C20_LockReleasedAndGranted ==
  /\ [](\A t \in Threads : th[t].pc = "idle" => lock # t)
  /\ [][\A t \in Threads :
          (Steps(t) /\ th'[t].pc = "idle" /\ th[t].pc # "idle")
          => /\ lock' = 0
             /\ ev'.act = "return"]_vars
  /\ \A t \in Threads : (AtLock(th[t].pc) ~> th[t].pc = "idle")

\* both callers wait for the lock while it is free, one to stop the recorded
\* live worker
C20_Witness ==
  /\ lock = 0
  /\ slot # <<>>
  /\ worker = "alive"
  /\ \E t, u \in Threads : t # u /\ th[t].pc = "stop_lock" /\ th[u].pc = "start_lock"

=============================================================================
